---- MODULE Spec2Model ----
(***************************************************************************)
(* Model of amanknoldus/llm-pipeline:                                      *)
(*   - pipeline.py: the four-stage Kubeflow pipeline DAG;                  *)
(*   - src/model.py: prompt templating (_add_text), the truncation filter  *)
(*     of preprocess_dataset, and the completion-only loss mask of         *)
(*     DataCollatorForCompletionOnlyLM.torch_call.                         *)
(***************************************************************************)
EXTENDS Integers, Sequences, FiniteSets, TLC

VARIABLES
    args,        \* pipeline(project_id, job_id) parameters
    status,      \* per stage: "pending" | "running" | "succeeded" | "failed"
    runs,        \* per stage: how many times it was started
    output,      \* process_data_task.output: <<>> until produced, then <<path>>
    consumed,    \* dataset_path the fine-tuning stage was started with
    rec,         \* the record handed to _add_text
    used,        \* branch taken by _add_text
    dataset,     \* texts (as full token sequences) given to preprocess_dataset
    max_length,  \* model.config.max_position_embeddings or None
    processed,   \* result of preprocess_dataset
    examples,    \* examples given to torch_call
    response_token_ids, \* tokenizer.encode(RESPONSE_KEY_NL)
    batch,       \* what torch_call returned
    pc           \* position of the function under analysis

vars == <<args, status, runs, output, consumed, rec, used, dataset,
          max_length, processed, examples, response_token_ids, batch, pc>>

None == "None"

\* ------------------------------------------------------------------------
\* Bounds
\* ------------------------------------------------------------------------
NumProjects == 3
NumJobs == 2
NumPaths == 2
MaxValueLen == 2
MaxRecords == 2
MaxTextTokens == 3
MaxPositions == 4
MaxBatch == 2
MaxExampleLen == 2
MaxKeyLen == 2

\* ------------------------------------------------------------------------
\* pipeline.py
\* ------------------------------------------------------------------------
Stages == {"Data Processing", "Dolly Fine Tuning", "Model_Upload", "Serve_Model"}

DepsNoUploadAfter ==
    [s \in Stages |->
        CASE s = "Data Processing"   -> {}
          [] s = "Dolly Fine Tuning" -> {"Data Processing"}
          [] s = "Model_Upload"      -> {}
          [] s = "Serve_Model"       -> {"Model_Upload"}]

\* The upstream tasks of every task: its .after() tasks and the tasks whose
\* outputs it takes as arguments.
Deps ==
    [s \in Stages |->
        CASE s = "Data Processing"   -> {}
          [] s = "Dolly Fine Tuning" -> {"Data Processing"}
          [] s = "Model_Upload"      -> {"Dolly Fine Tuning"}
          [] s = "Serve_Model"       -> {"Model_Upload"}]

PipelineIdle ==
    /\ rec = None /\ used = None
    /\ dataset = <<>> /\ max_length = None /\ processed = None
    /\ examples = <<>> /\ response_token_ids = <<>> /\ batch = None

PipelineInit ==
    /\ args \in [project_id : 1..NumProjects, job_id : 1..NumJobs]
    /\ status = [s \in Stages |-> "pending"]
    /\ runs = [s \in Stages |-> 0]
    /\ output = <<>>
    /\ consumed = <<>>
    /\ pc = "pipeline"
    /\ PipelineIdle

OthersUnchangedByPipeline ==
    UNCHANGED <<args, rec, used, dataset, max_length, processed, examples,
                response_token_ids, batch, pc>>

ReadyIgnoringFailure(s) ==
    /\ status[s] = "pending"
    /\ \A d \in Deps[s] : status[d] \in {"succeeded", "failed"}

\* A task is ready when it has not run and all its upstream tasks succeeded.
Ready(s) ==
    /\ status[s] = "pending"
    /\ \A d \in Deps[s] : status[d] = "succeeded"

StartStage(s) ==
    /\ pc = "pipeline"
    /\ Ready(s)
    /\ status' = [status EXCEPT ![s] = "running"]
    /\ runs' = [runs EXCEPT ![s] = @ + 1]
    /\ consumed' = IF s = "Dolly Fine Tuning" THEN output ELSE consumed
    /\ UNCHANGED output
    /\ OthersUnchangedByPipeline

SucceedStage(s) ==
    /\ pc = "pipeline"
    /\ status[s] = "running"
    /\ status' = [status EXCEPT ![s] = "succeeded"]
    /\ IF s = "Data Processing"
         THEN \E p \in 1..NumPaths : output' = <<p>>
         ELSE UNCHANGED output
    /\ UNCHANGED <<runs, consumed>>
    /\ OthersUnchangedByPipeline

FailStage(s) ==
    /\ pc = "pipeline"
    /\ status[s] = "running"
    /\ status' = [status EXCEPT ![s] = "failed"]
    /\ UNCHANGED <<runs, output, consumed>>
    /\ OthersUnchangedByPipeline

PipelineNext ==
    \/ \E s \in Stages : StartStage(s)
    \/ \E s \in Stages : SucceedStage(s)
    \/ \E s \in Stages : FailStage(s)

PipelineSpec == PipelineInit /\ [][PipelineNext]_vars

\* The orchestrator starts every ready task and every running task ends.
PipelineFairSpec ==
    /\ PipelineSpec
    /\ \A s \in Stages : WF_vars(StartStage(s))
    /\ \A s \in Stages : WF_vars(SucceedStage(s) \/ FailStage(s))

\* ------------------------------------------------------------------------
\* Properties of the pipeline
\* ------------------------------------------------------------------------
StageOrder ==
    <<"Data Processing", "Dolly Fine Tuning", "Model_Upload", "Serve_Model">>

\* C1: the stages run in the order Data Processing -> Dolly Fine Tuning ->
\* Model_Upload -> Serve_Model: a stage has left "pending" only if its
\* immediate predecessor succeeded, and the fine-tuning stage has started
\* only with the output the data-processing stage produced.
C1_StrictStageOrder ==
    /\ \A i \in 2..Len(StageOrder) :
          status[StageOrder[i]] # "pending"
              => status[StageOrder[i - 1]] = "succeeded"
    /\ status["Dolly Fine Tuning"] # "pending"
          => /\ output # <<>>
             /\ consumed = output

C1_Witness ==
    /\ status["Serve_Model"] = "succeeded"
    /\ consumed = output
    /\ output # <<>>

RECURSIVE UpstreamWithin(_, _)
UpstreamWithin(s, n) ==
    IF n = 0 THEN {}
    ELSE Deps[s] \cup UNION {UpstreamWithin(d, n - 1) : d \in Deps[s]}

\* All tasks a task transitively depends on.
Upstream(s) == UpstreamWithin(s, Cardinality(Stages))

Downstream(s) == {t \in Stages : s \in Upstream(t)}

Acyclic == \A s \in Stages : s \notin Upstream(s)

AnyFailed == \E s \in Stages : status[s] = "failed"

\* C2: the declared graph is acyclic, every stage is started at most once,
\* no stage downstream of a failed stage is ever started, and under fair
\* scheduling a run in which no stage fails reaches the state in which
\* Serve_Model has succeeded.
C2_DagRunsToCompletion ==
    /\ [](/\ Acyclic
          /\ \A s \in Stages : runs[s] <= 1
          /\ \A s \in Stages :
                status[s] = "failed"
                    => \A t \in Downstream(s) :
                          status[t] = "pending" /\ runs[t] = 0)
    /\ <>(AnyFailed \/ status["Serve_Model"] = "succeeded")

C2_Witness ==
    /\ status["Dolly Fine Tuning"] = "failed"
    /\ Downstream("Dolly Fine Tuning") = {"Model_Upload", "Serve_Model"}
    /\ runs["Data Processing"] = 1

\* ------------------------------------------------------------------------
\* src/model.py: prompt templating
\* A string is a sequence of atoms; a template's "{name}" atoms are its
\* replacement fields.
\* ------------------------------------------------------------------------
INSTRUCTION_KEY == <<"### Instruction:">>
INPUT_KEY == <<"Input:">>
RESPONSE_KEY == <<"### Response:">>
END_KEY == <<"### End">>
INTRO_BLURB ==
    <<"Below is an instruction that describes a task. Write a response that appropriately completes the request.">>

\* The line break of the triple-quoted templates, with the indentation of
\* the continuation lines.
NL == "\n    "

Field(name) == "{" \o name \o "}"

\* str.format(**kw): every replacement field is replaced by its argument;
\* the arguments themselves are not scanned again.
RECURSIVE Format(_, _)
Format(t, kw) ==
    IF t = <<>> THEN <<>>
    ELSE LET a == Head(t)
             names == {n \in DOMAIN kw : a = Field(n)}
         IN  (IF names # {} THEN kw[CHOOSE n \in names : TRUE] ELSE <<a>>)
                 \o Format(Tail(t), kw)

PROMPT_NO_INPUT_FORMAT ==
    Format(<<Field("intro"), NL, Field("instruction_key"), NL,
             Field("instruction"), NL, Field("response_key"), NL,
             Field("response"), NL, Field("end_key")>>,
           [intro |-> INTRO_BLURB,
            instruction_key |-> INSTRUCTION_KEY,
            instruction |-> <<Field("instruction")>>,
            response_key |-> RESPONSE_KEY,
            response |-> <<Field("response")>>,
            end_key |-> END_KEY])

PROMPT_WITH_INPUT_FORMAT ==
    Format(<<Field("intro"), NL, Field("instruction_key"), NL,
             Field("instruction"), NL, Field("input_key"), NL,
             Field("input"), NL, Field("response_key"), NL,
             Field("response"), NL, Field("end_key")>>,
           [intro |-> INTRO_BLURB,
            instruction_key |-> INSTRUCTION_KEY,
            instruction |-> <<Field("instruction")>>,
            input_key |-> INPUT_KEY,
            input |-> <<Field("input")>>,
            response_key |-> RESPONSE_KEY,
            response |-> <<Field("response")>>,
            end_key |-> END_KEY])

\* An optional value is <<>> (None) or <<v>>.
Get(r, key) == IF key \in DOMAIN r THEN r[key] ELSE <<>>

TruthyUnlessNone(v) == v # <<>>

\* Python truth value of an optional string: None and "" are false.
Truthy(v) == v # <<>> /\ v[1] # <<>>

Chars == {"a", "Input:", "### End"}

RECURSIVE StrsOfLen(_)
StrsOfLen(n) ==
    IF n = 0 THEN {<<>>}
    ELSE {Append(s, c) : s \in StrsOfLen(n - 1), c \in Chars}

Strs == UNION {StrsOfLen(n) : n \in 0..MaxValueLen}

Records ==
    {[instruction |-> i, response |-> r] : i \in Strs, r \in Strs}
        \cup {[instruction |-> i, response |-> r, context |-> c] :
                 i \in Strs, r \in Strs, c \in {<<>>} \cup {<<x>> : x \in Strs}}

TextInit ==
    /\ rec \in Records
    /\ used = None
    /\ pc = "_add_text"
    /\ args = None /\ status = None /\ runs = None
    /\ output = None /\ consumed = None
    /\ dataset = <<>> /\ max_length = None /\ processed = None
    /\ examples = <<>> /\ response_token_ids = <<>> /\ batch = None

OthersUnchangedByText ==
    UNCHANGED <<args, status, runs, output, consumed, dataset, max_length,
                processed, examples, response_token_ids, batch>>

WithText(r, text) ==
    [k \in DOMAIN r \cup {"text"} |-> IF k = "text" THEN text ELSE r[k]]

AddTextWithInput ==
    /\ pc = "_add_text"
    /\ Truthy(Get(rec, "context"))
    /\ rec' = WithText(rec,
                Format(PROMPT_WITH_INPUT_FORMAT,
                       [instruction |-> rec["instruction"],
                        response |-> rec["response"],
                        input |-> Get(rec, "context")[1]]))
    /\ used' = "PROMPT_WITH_INPUT_FORMAT"
    /\ pc' = "done"
    /\ OthersUnchangedByText

AddTextNoInput ==
    /\ pc = "_add_text"
    /\ ~Truthy(Get(rec, "context"))
    /\ rec' = WithText(rec,
                Format(PROMPT_NO_INPUT_FORMAT,
                       [instruction |-> rec["instruction"],
                        response |-> rec["response"]]))
    /\ used' = "PROMPT_NO_INPUT_FORMAT"
    /\ pc' = "done"
    /\ OthersUnchangedByText

TextNext == AddTextWithInput \/ AddTextNoInput

TextSpec == TextInit /\ [][TextNext]_vars

\* ------------------------------------------------------------------------
\* Properties of _add_text
\* ------------------------------------------------------------------------
IsAt(p, text, i) ==
    /\ i + Len(p) - 1 <= Len(text)
    /\ \A k \in 1..Len(p) : text[i + k - 1] = p[k]

\* The parts occur in the text one after the other, without overlap,
\* from position i on.
RECURSIVE InOrderFrom(_, _, _)
InOrderFrom(parts, text, i) ==
    IF parts = <<>> THEN TRUE
    ELSE LET at == {j \in i..(Len(text) + 1) : IsAt(Head(parts), text, j)}
         IN  /\ at # {}
             /\ InOrderFrom(Tail(parts), text,
                   (CHOOSE j \in at : \A k \in at : j <= k) + Len(Head(parts)))

Occurrences(a, s) == Cardinality({i \in 1..Len(s) : s[i] = a})

ContextGiven == "context" \in DOMAIN rec /\ rec["context"] \notin {<<>>, << <<>> >>}

\* C4: _add_text uses PROMPT_WITH_INPUT_FORMAT exactly when the record has a
\* context that is neither None nor empty, and PROMPT_NO_INPUT_FORMAT
\* otherwise; the text holds, in this order, the intro blurb, the instruction
\* key, the instruction, (with a context only: the input key and the
\* context), the response key, the response and the end key.
C4_AddTextTemplates ==
    pc = "done" =>
        /\ used = (IF ContextGiven THEN "PROMPT_WITH_INPUT_FORMAT"
                                   ELSE "PROMPT_NO_INPUT_FORMAT")
        /\ ContextGiven =>
              InOrderFrom(<<INTRO_BLURB, INSTRUCTION_KEY, rec["instruction"],
                            INPUT_KEY, rec["context"][1], RESPONSE_KEY,
                            rec["response"], END_KEY>>, rec["text"], 1)
        /\ ~ContextGiven =>
              /\ InOrderFrom(<<INTRO_BLURB, INSTRUCTION_KEY, rec["instruction"],
                               RESPONSE_KEY, rec["response"], END_KEY>>,
                             rec["text"], 1)
              /\ Occurrences(INPUT_KEY[1], rec["text"])
                    = Occurrences(INPUT_KEY[1], rec["instruction"])
                        + Occurrences(INPUT_KEY[1], rec["response"])
        /\ rec["text"][Len(rec["text"])] = END_KEY[1]

C4_Witness ==
    /\ pc = "done"
    /\ used = "PROMPT_NO_INPUT_FORMAT"
    /\ "context" \in DOMAIN rec
    /\ rec["context"] = << <<>> >>
    /\ rec["instruction"] # <<>>

\* ------------------------------------------------------------------------
\* src/model.py: preprocess_dataset
\* A tokenized text is a sequence of token ids.
\* ------------------------------------------------------------------------
\* tokenizer.pad_token = tokenizer.eos_token
EosTokenId == 0
\* END_KEY is added as a special token, so it encodes to one id.
EndKeyTokenId == 1
OtherTokenId == 2

RECURSIVE TokensOfLen(_, _)
TokensOfLen(ids, n) ==
    IF n = 0 THEN {<<>>}
    ELSE {Append(s, t) : s \in TokensOfLen(ids, n - 1), t \in ids}

\* The tokens of a text made by _add_text: it ends with the end key.
TokenizedTexts ==
    UNION {{Append(s, EndKeyTokenId) :
               s \in TokensOfLen({EndKeyTokenId, OtherTokenId}, n)} :
           n \in 0..(MaxTextTokens - 1)}

RECURSIVE DatasetsOfLen(_)
DatasetsOfLen(n) ==
    IF n = 0 THEN {<<>>}
    ELSE {Append(d, t) : d \in DatasetsOfLen(n - 1), t \in TokenizedTexts}

Min(a, b) == IF a <= b THEN a ELSE b

\* tokenizer(text, max_length=max_length, truncation=True): the ids beyond
\* max_length are cut off. row is the record's index in the loaded dataset.
preprocess_batch(tokens, row, maxlen) ==
    [row |-> row,
     input_ids |-> SubSeq(tokens, 1, Min(Len(tokens), maxlen)),
     attention_mask |-> [k \in 1..Min(Len(tokens), maxlen) |-> 1]]

KeepUpToMaxLength(r, maxlen) == Len(r.input_ids) <= maxlen

\* lambda rec: len(rec["input_ids"]) < max_length
Keep(r, maxlen) == Len(r.input_ids) < maxlen

RECURSIVE Filter(_, _)
Filter(d, maxlen) ==
    IF d = <<>> THEN <<>>
    ELSE (IF Keep(Head(d), maxlen) THEN <<Head(d)>> ELSE <<>>)
             \o Filter(Tail(d), maxlen)

\* dataset.shuffle(): any order of the same records.
Shuffles(d) ==
    {[k \in 1..Len(d) |-> d[f[k]]] :
        f \in {g \in [1..Len(d) -> 1..Len(d)] :
                  \A a, b \in 1..Len(d) : a # b => g[a] # g[b]}}

PreprocessInit ==
    /\ dataset \in UNION {DatasetsOfLen(n) : n \in 0..MaxRecords}
    /\ max_length \in {<<>>} \cup {<<n>> : n \in 1..MaxPositions}
    /\ processed = <<>>
    /\ pc = "preprocess_dataset"
    /\ args = None /\ status = None /\ runs = None
    /\ output = None /\ consumed = None
    /\ rec = None /\ used = None
    /\ examples = <<>> /\ response_token_ids = <<>> /\ batch = None

OthersUnchangedByPreprocess ==
    UNCHANGED <<args, status, runs, output, consumed, rec, used, dataset,
                max_length, examples, response_token_ids, batch>>

\* map, filter and shuffle with an integer max_length.
PreprocessDataset ==
    /\ pc = "preprocess_dataset"
    /\ max_length # <<>>
    /\ LET tokenized == [k \in 1..Len(dataset) |->
                            preprocess_batch(dataset[k], k, max_length[1])]
       IN  \E d \in Shuffles(Filter(tokenized, max_length[1])) :
               processed' = <<d>>
    /\ pc' = "done"
    /\ OthersUnchangedByPreprocess

\* max_position_embeddings is absent: max_length is None and the filter's
\* comparison of an int with None raises TypeError on the first record.
PreprocessTypeError ==
    /\ pc = "preprocess_dataset"
    /\ max_length = <<>>
    /\ dataset # <<>>
    /\ pc' = "TypeError"
    /\ UNCHANGED processed
    /\ OthersUnchangedByPreprocess

\* Without records the filter's function is never called.
PreprocessEmpty ==
    /\ pc = "preprocess_dataset"
    /\ max_length = <<>>
    /\ dataset = <<>>
    /\ processed' = << <<>> >>
    /\ pc' = "done"
    /\ OthersUnchangedByPreprocess

PreprocessNext == PreprocessDataset \/ PreprocessTypeError \/ PreprocessEmpty

PreprocessSpec == PreprocessInit /\ [][PreprocessNext]_vars

\* ------------------------------------------------------------------------
\* Properties of preprocess_dataset
\* ------------------------------------------------------------------------
\* C5: every record of the returned dataset has all the tokens of its text
\* (nothing was cut off), so it ends with the end key, and has fewer than
\* max_length input_ids; every record whose text has max_length tokens or
\* more is absent from the returned dataset.
C5_NoTruncatedRecord ==
    pc = "done" =>
        /\ \A k \in 1..Len(processed[1]) :
              LET r == processed[1][k] IN
              /\ r.input_ids = dataset[r.row]
              /\ Len(r.input_ids) < max_length[1]
              /\ r.input_ids[Len(r.input_ids)] = EndKeyTokenId
        /\ \A i \in 1..Len(dataset) :
              Len(dataset[i]) >= max_length[1]
                  => \A k \in 1..Len(processed[1]) : processed[1][k].row # i

C5_Witness ==
    /\ pc = "done"
    /\ Len(dataset) = 2
    /\ Len(dataset[1]) = max_length[1]
    /\ Len(dataset[2]) < max_length[1]
    /\ Len(processed[1]) = 1
    /\ processed[1][1].row = 2

\* ------------------------------------------------------------------------
\* src/model.py: DataCollatorForCompletionOnlyLM
\* ------------------------------------------------------------------------
\* RESPONSE_KEY_NL is added as a special token.
ResponseKeyNlTokenId == 3
\* The label value the loss function ignores.
IgnoreIndex == -100
pad_to_multiple_of == 8

CollatorTokenIds == {EosTokenId, ResponseKeyNlTokenId, OtherTokenId}

\* What preprocess_batch makes of a text: its ids and a mask of ones.
Example(ids) == [input_ids |-> ids, attention_mask |-> [k \in 1..Len(ids) |-> 1]]

ExampleSet ==
    {Example(ids) :
        ids \in UNION {TokensOfLen(CollatorTokenIds, n) : n \in 1..MaxExampleLen}}

RECURSIVE BatchesOfLen(_)
BatchesOfLen(n) ==
    IF n = 0 THEN {<<>>}
    ELSE {Append(b, e) : b \in BatchesOfLen(n - 1), e \in ExampleSet}

RECURSIVE MaxLen(_)
MaxLen(es) ==
    IF es = <<>> THEN 0
    ELSE LET m == MaxLen(Tail(es))
             n == Len(Head(es).input_ids)
         IN  IF n >= m THEN n ELSE m

\* The padded length: the longest example, rounded up to a multiple of
\* pad_to_multiple_of.
PaddedLen(es) ==
    ((MaxLen(es) + pad_to_multiple_of - 1) \div pad_to_multiple_of)
        * pad_to_multiple_of

\* DataCollatorForLanguageModeling(mlm=False).torch_call: pad on the right
\* with the pad token (mask 0); labels are the input_ids with every pad
\* token id replaced by the ignore index.
DataCollatorForLanguageModeling(es) ==
    LET w == PaddedLen(es)
        ids == [i \in 1..Len(es) |->
                   [p \in 1..w |-> IF p <= Len(es[i].input_ids)
                                     THEN es[i].input_ids[p] ELSE EosTokenId]]
    IN  [input_ids |-> ids,
         attention_mask |->
             [i \in 1..Len(es) |->
                 [p \in 1..w |-> IF p <= Len(es[i].attention_mask)
                                   THEN es[i].attention_mask[p] ELSE 0]],
         labels |->
             [i \in 1..Len(es) |->
                 [p \in 1..w |-> IF ids[i][p] = EosTokenId
                                   THEN IgnoreIndex ELSE ids[i][p]]]]

SearchedInputIds(b) == b.input_ids

\* The tensor the response key is looked up in: batch["labels"].
Searched(b) == b.labels

\* for idx in np.where(row == token)[0]: start_idx = idx; break
\* The first index (from 0) of the token in the row as <<idx>>, or <<>>
\* (None) when the token is not in the row.
response_token_ids_start_idx(row, token) ==
    LET at == {p \in 1..Len(row) : row[p] = token}
    IN  IF at = {} THEN <<>>
        ELSE <<(CHOOSE p \in at : \A q \in at : p <= q) - 1>>

EndIdxOneFurther(start) == start + 2

response_token_ids_end_idx(start) == start + 1

\* labels[i, :end_idx] = -100; the index of position p of a row is p - 1.
MaskPrefix(row, end_idx) ==
    [p \in 1..Len(row) |-> IF p - 1 < end_idx THEN IgnoreIndex ELSE row[p]]

\* The loop over the examples, from example i on: "raised" as soon as one
\* example lacks the token, else the labels with every example's prefix set
\* to the ignore index.
RECURSIVE MaskLoop(_, _, _, _)
MaskLoop(i, b, key, labels) ==
    IF i > Len(labels) THEN [raised |-> FALSE, labels |-> labels]
    ELSE LET start == response_token_ids_start_idx(Searched(b)[i], key[1])
         IN  IF start = <<>> THEN [raised |-> TRUE, labels |-> <<>>]
             ELSE MaskLoop(i + 1, b, key,
                    [labels EXCEPT ![i] =
                        MaskPrefix(labels[i],
                                   response_token_ids_end_idx(start[1]))])

torch_call(es, key) ==
    LET b == DataCollatorForLanguageModeling(es)
        r == MaskLoop(1, b, key, b.labels)
    IN  IF r.raised THEN [raised |-> TRUE]
        ELSE [raised |-> FALSE,
              batch |-> [b EXCEPT !.labels = r.labels]]

CollatorInit ==
    /\ examples \in UNION {BatchesOfLen(n) : n \in 1..MaxBatch}
    /\ response_token_ids \in
          UNION {TokensOfLen(CollatorTokenIds, n) : n \in 1..MaxKeyLen}
    /\ batch = <<>>
    /\ pc = "torch_call"
    /\ args = None /\ status = None /\ runs = None
    /\ output = None /\ consumed = None
    /\ rec = None /\ used = None
    /\ dataset = <<>> /\ max_length = None /\ processed = None

OthersUnchangedByCollator ==
    UNCHANGED <<args, status, runs, output, consumed, rec, used, dataset,
                max_length, processed, examples, response_token_ids>>

TorchCallReturns ==
    /\ pc = "torch_call"
    /\ ~torch_call(examples, response_token_ids).raised
    /\ batch' = <<torch_call(examples, response_token_ids).batch>>
    /\ pc' = "returned"
    /\ OthersUnchangedByCollator

TorchCallRaises ==
    /\ pc = "torch_call"
    /\ torch_call(examples, response_token_ids).raised
    /\ pc' = "RuntimeError"
    /\ UNCHANGED batch
    /\ OthersUnchangedByCollator

CollatorNext == TorchCallReturns \/ TorchCallRaises

CollatorSpec == CollatorInit /\ [][CollatorNext]_vars

\* ------------------------------------------------------------------------
\* Properties of torch_call
\* ------------------------------------------------------------------------
Ids(i) == examples[i].input_ids

\* The position (from 1) of the first occurrence of the response key's
\* first token among the tokens of example i, 0 if there is none.
FirstKeyPos(i) ==
    LET at == {p \in 1..Len(Ids(i)) : Ids(i)[p] = response_token_ids[1]}
    IN  IF at = {} THEN 0 ELSE CHOOSE p \in at : \A q \in at : p <= q

\* The base collator labels every pad (= eos) token with the ignore index,
\* so the key's first token occurs in its labels iff it is not the pad token
\* and is one of the example's tokens.
InBaseLabels(i) ==
    /\ response_token_ids[1] # EosTokenId
    /\ FirstKeyPos(i) # 0

\* C3: in a returned batch, every label up through the last token of the
\* response key (all of its tokens, however many) is the ignore index.
C3_MaskedThroughEndOfKey ==
    pc = "returned" =>
        \A i \in 1..Len(examples) :
            IsAt(response_token_ids, Ids(i), FirstKeyPos(i))
                => \A p \in 1..(FirstKeyPos(i) + Len(response_token_ids) - 1) :
                      batch[1].labels[i][p] = IgnoreIndex

\* C6: torch_call raises RuntimeError and returns no batch if the first
\* token of the encoded response key is missing from the base collator's
\* labels of some example, and returns a batch without error otherwise.
C6_RaisesIffKeyMissing ==
    pc # "torch_call" =>
        IF \E i \in 1..Len(examples) : ~InBaseLabels(i)
          THEN pc = "RuntimeError" /\ batch = <<>>
          ELSE pc = "returned" /\ batch # <<>>

C6_Witness ==
    /\ pc = "RuntimeError"
    /\ Len(examples) = 2
    /\ InBaseLabels(1)
    /\ ~InBaseLabels(2)

====
